---- MODULE Spec2Model ----
(***************************************************************************)
(* Model of donkeycar/parts/actuator.py: the AMSL293D differential drive,  *)
(* the PCA9685 PWM controller and the PWMSteering / PWMThrottle wrappers.  *)
(*                                                                         *)
(* Numbers are exact rationals <<n, d>> (d > 0, gcd(n, d) = 1), so that    *)
(* steering, throttle and pulse arithmetic is computed, not abstracted.    *)
(***************************************************************************)
EXTENDS Integers, Sequences, FiniteSets, TLC

VARIABLES arb, drive, steering, throttle, pwm, first, last

vars == <<arb, drive, steering, throttle, pwm, first, last>>

driveVars == <<arb, drive>>
pwmVars == <<steering, throttle, pwm, first, last>>

(***************************************************************************)
(* Bounds.  Commands are the multiples of 1/Grid from -(Grid+1)/Grid to    *)
(* (Grid+1)/Grid: every valid step of [-1, 1] plus one step out of range   *)
(* on each side.                                                           *)
(***************************************************************************)
Grid == 2

(***************************************************************************)
(* Rational arithmetic (Python number arithmetic on the command values).   *)
(***************************************************************************)
Abs(i) == IF i < 0 THEN -i ELSE i

RECURSIVE GCD(_, _)
GCD(a, b) == IF b = 0 THEN a ELSE GCD(b, a % b)

Rat(n, d) ==
    LET s == IF d < 0 THEN -1 ELSE 1
        g == GCD(Abs(n), Abs(d))
    IN  <<(s * n) \div g, (s * d) \div g>>

FromInt(i) == <<i, 1>>

RAdd(x, y) == Rat(x[1] * y[2] + y[1] * x[2], x[2] * y[2])
RSub(x, y) == Rat(x[1] * y[2] - y[1] * x[2], x[2] * y[2])
RMul(x, y) == Rat(x[1] * y[1], x[2] * y[2])
RDiv(x, y) == Rat(x[1] * y[2], x[2] * y[1])
RLt(x, y) == x[1] * y[2] < y[1] * x[2]
RGt(x, y) == RLt(y, x)
RAbs(x) == <<Abs(x[1]), x[2]>>
\* Python int(): truncation toward zero.
RInt(x) == IF x[1] >= 0 THEN x[1] \div x[2] ELSE -((-x[1]) \div x[2])

Zero == FromInt(0)
One == FromInt(1)
MinusOne == FromInt(-1)

Commands == { Rat(n, Grid) : n \in -(Grid + 1)..(Grid + 1) }

InRange(x) == ~RGt(x, One) /\ ~RLt(x, MinusOne)

(***************************************************************************)
(* dk.util.data.map_range: linear interpolation, no clamping.              *)
(***************************************************************************)
map_range(value, in_min, in_max, out_min, out_max) ==
    RAdd(out_min,
         RDiv(RMul(RSub(value, in_min), RSub(out_max, out_min)),
              RSub(in_max, in_min)))

(***************************************************************************)
(* AMSL293D: differential drive over four DC motors.                       *)
(***************************************************************************)
Arbiters == {"a", "b"}

DC_Motor_1 == "DC_Motor_1"
DC_Motor_2 == "DC_Motor_2"
DC_Motor_3 == "DC_Motor_3"
DC_Motor_4 == "DC_Motor_4"

\* AMSL293D.__init__: both stored speeds start at 0.
AMSL293D_init == [throttleL |-> Zero, throttleR |-> Zero]

\* AMSL293D.convert: int(map_range(abs(value), 0, 1, 0, 100)).
convert(value) ==
    RInt(map_range(RAbs(value), Zero, One, Zero, FromInt(100)))

\* AMSL293D.runLeftMotors: one run_dc_motors call on motors 1 and 2.
runLeftMotors(t) ==
    << [motor |-> DC_Motor_1, speed |-> convert(RAbs(t)), clockwise |-> RGt(t, Zero)],
       [motor |-> DC_Motor_2, speed |-> convert(RAbs(t)), clockwise |-> RGt(t, Zero)] >>

\* AMSL293D.runRightMotors: motor 3, then motor 4 with inverted direction.
runRightMotors(t) ==
    << [motor |-> DC_Motor_3, speed |-> convert(RAbs(t)), clockwise |-> RGt(t, Zero)],
       [motor |-> DC_Motor_4, speed |-> convert(RAbs(t)), clockwise |-> ~RGt(t, Zero)] >>

\* The two range checks at the head of AMSL293D.run.
AMSL293D_invalid(s, t) ==
    \/ RGt(t, One) \/ RLt(t, MinusOne)
    \/ RGt(s, One) \/ RLt(s, MinusOne)


\* Variant of the elif chain: quadrant 3 adds the steering instead of
\* subtracting it.
AMSL293D_blend_q3_sign(self, s, t) ==
    IF s = Zero
      THEN [throttleL |-> t, throttleR |-> t]
    ELSE IF RGt(s, Zero) /\ RGt(t, Zero)
      THEN [throttleL |-> t, throttleR |-> RSub(t, s)]
    ELSE IF RLt(s, Zero) /\ RGt(t, Zero)
      THEN [throttleL |-> RAdd(t, s), throttleR |-> t]
    ELSE IF RGt(s, Zero) /\ RLt(t, Zero)
      THEN [throttleL |-> t, throttleR |-> RAdd(t, s)]
    ELSE IF RLt(s, Zero) /\ RLt(t, Zero)
      THEN [throttleL |-> RAdd(t, s), throttleR |-> t]
    ELSE self

\* Variant of the elif chain: quadrant 1 adds the steering to the right side.
AMSL293D_blend_q1_sign(self, s, t) ==
    IF s = Zero
      THEN [throttleL |-> t, throttleR |-> t]
    ELSE IF RGt(s, Zero) /\ RGt(t, Zero)
      THEN [throttleL |-> t, throttleR |-> RAdd(t, s)]
    ELSE IF RLt(s, Zero) /\ RGt(t, Zero)
      THEN [throttleL |-> RAdd(t, s), throttleR |-> t]
    ELSE IF RGt(s, Zero) /\ RLt(t, Zero)
      THEN [throttleL |-> t, throttleR |-> RAdd(t, s)]
    ELSE IF RLt(s, Zero) /\ RLt(t, Zero)
      THEN [throttleL |-> RSub(t, s), throttleR |-> t]
    ELSE self

\* The if / elif chain of AMSL293D.run: the new (throttleL, throttleR).
\* When no branch matches the fields keep their values.
AMSL293D_blend(self, s, t) ==
    IF s = Zero
      THEN [throttleL |-> t, throttleR |-> t]
    ELSE IF RGt(s, Zero) /\ RGt(t, Zero)
      THEN [throttleL |-> t, throttleR |-> RSub(t, s)]
    ELSE IF RLt(s, Zero) /\ RGt(t, Zero)
      THEN [throttleL |-> RAdd(t, s), throttleR |-> t]
    ELSE IF RGt(s, Zero) /\ RLt(t, Zero)
      THEN [throttleL |-> t, throttleR |-> RAdd(t, s)]
    ELSE IF RLt(s, Zero) /\ RLt(t, Zero)
      THEN [throttleL |-> RSub(t, s), throttleR |-> t]
    ELSE self

\* Variant of run: the range checks come after the speeds are stored.
AMSL293D_run_late_check(self, s, t) ==
    LET new == AMSL293D_blend(self, s, t)
    IN  IF AMSL293D_invalid(s, t)
          THEN [self |-> new, raised |-> "ValueError",
                dispatched |-> <<>>, motors |-> <<>>]
          ELSE [self |-> new, raised |-> "none",
                dispatched |-> <<new.throttleL, new.throttleR>>,
                motors |-> runLeftMotors(new.throttleL)
                             \o runRightMotors(new.throttleR)]

\* AMSL293D.run as a whole: the object after the call, the exception raised,
\* the speeds handed to runLeftMotors / runRightMotors and the motor
\* commands issued, in order.
AMSL293D_run(self, s, t) ==
    IF AMSL293D_invalid(s, t)
      THEN [self |-> self, raised |-> "ValueError",
            dispatched |-> <<>>, motors |-> <<>>]
      ELSE LET new == AMSL293D_blend(self, s, t)
           IN  [self |-> new, raised |-> "none",
                dispatched |-> <<new.throttleL, new.throttleR>>,
                motors |-> runLeftMotors(new.throttleL)
                             \o runRightMotors(new.throttleR)]

NoCall == [called |-> FALSE, steering |-> Zero, throttle |-> Zero,
           raised |-> "none", dispatched |-> <<>>, motors |-> <<>>]

DriveInit ==
    /\ arb = [a \in Arbiters |-> AMSL293D_init]
    /\ drive = [a \in Arbiters |-> NoCall]

\* One call a.run(s, t).
Run(a, s, t) ==
    LET r == AMSL293D_run(arb[a], s, t)
    IN  /\ arb' = [arb EXCEPT ![a] = r.self]
        /\ drive' = [drive EXCEPT ![a] =
                        [called |-> TRUE, steering |-> s, throttle |-> t,
                         raised |-> r.raised, dispatched |-> r.dispatched,
                         motors |-> r.motors]]
        /\ UNCHANGED pwmVars

(***************************************************************************)
(* PCA9685 and the PWM wrappers.                                           *)
(***************************************************************************)
Parts == {"steering", "throttle"}

NoPulse == <<>>

LEFT_ANGLE == -1
RIGHT_ANGLE == 1
MIN_THROTTLE == -1
MAX_THROTTLE == 1

\* Configurations the parts are constructed with; the first of each is the
\* constructor's default.
SteeringConfigs ==
    { [left_pulse |-> FromInt(290), right_pulse |-> FromInt(490)],
      [left_pulse |-> FromInt(460), right_pulse |-> FromInt(291)] }

ThrottleConfigs ==
    { [max_pulse |-> FromInt(300), min_pulse |-> FromInt(490), zero_pulse |-> FromInt(350)],
      [max_pulse |-> FromInt(500), min_pulse |-> FromInt(221), zero_pulse |-> FromInt(370)] }

\* Variant of set_pulse without the try / except.
PCA9685_set_pulse_uncaught(hw, pulse, ok) ==
    IF ok THEN [hw |-> pulse, raised |-> "none"]
          ELSE [hw |-> hw, raised |-> "OSError"]

\* PCA9685.set_pulse: the bus write, with OSError caught and printed.
\* hw is the pulse the channel holds; ok is whether the bus write succeeds.
PCA9685_set_pulse(hw, pulse, ok) ==
    IF ok THEN [hw |-> pulse, raised |-> "none"]
          ELSE [hw |-> hw, raised |-> "none"]

\* PCA9685.run: self.set_pulse(pulse).
PCA9685_run(hw, pulse, ok) == PCA9685_set_pulse(hw, pulse, ok)

\* Pulses a caller hands to a controller directly, bypassing the parts.
ControllerPulses == {FromInt(123), FromInt(400)}

\* Variant of PWMSteering.run with the two pulse endpoints exchanged.
PWMSteering_run_swapped(self, angle) ==
    map_range(angle, FromInt(LEFT_ANGLE), FromInt(RIGHT_ANGLE),
              self.right_pulse, self.left_pulse)

\* PWMSteering.run: the pulse handed to controller.set_pulse.
PWMSteering_run(self, angle) ==
    map_range(angle, FromInt(LEFT_ANGLE), FromInt(RIGHT_ANGLE),
              self.left_pulse, self.right_pulse)

\* Variant of PWMSteering.shutdown that parks the servo at full left.
PWMSteering_shutdown_left(self) == PWMSteering_run(self, FromInt(LEFT_ANGLE))

\* PWMSteering.shutdown: self.run(0).
PWMSteering_shutdown(self) == PWMSteering_run(self, Zero)

\* Variant of PWMThrottle.__init__ that calibrates with max_pulse.
PWMThrottle_init_max(self) == self.max_pulse

\* PWMThrottle.__init__: the pulse sent to calibrate the ESC.
PWMThrottle_init(self) == self.zero_pulse

\* Variant of PWMThrottle.run: one linear map from [-1, 1] to
\* [min_pulse, max_pulse], as PWMSteering.run does.
PWMThrottle_run_single_segment(self, t) ==
    map_range(t, FromInt(MIN_THROTTLE), FromInt(MAX_THROTTLE),
              self.min_pulse, self.max_pulse)

\* PWMThrottle.run: the pulse handed to controller.set_pulse.
PWMThrottle_run(self, t) ==
    IF RGt(t, Zero)
      THEN map_range(t, Zero, FromInt(MAX_THROTTLE),
                     self.zero_pulse, self.max_pulse)
      ELSE map_range(t, FromInt(MIN_THROTTLE), Zero,
                     self.min_pulse, self.zero_pulse)

\* PWMThrottle.shutdown: self.run(0).
PWMThrottle_shutdown(self) == PWMThrottle_run(self, Zero)

NoThrottle == [constructed |-> FALSE, max_pulse |-> Zero,
               min_pulse |-> Zero, zero_pulse |-> Zero]

NoOp == [part |-> "none", op |-> "none", arg |-> Zero, pulses |-> <<>>,
         io |-> "none", raised |-> "none"]

PWMInit ==
    /\ steering \in SteeringConfigs
    /\ throttle = NoThrottle
    /\ pwm = [p \in Parts |-> NoPulse]
    /\ first = NoPulse
    /\ last = NoOp

\* One call of a part that hands pulse to its controller's set_pulse.
\* first records the first pulse the PWMThrottle object ever passed to
\* controller.set_pulse (calls made on the controller directly are not the
\* throttle's and do not count), last the call just made.
Send(part, op, arg, pulse, ok) ==
    LET r == PCA9685_set_pulse(pwm[part], pulse, ok)
    IN  /\ pwm' = [pwm EXCEPT ![part] = r.hw]
        /\ first' = IF part = "throttle" /\ first = NoPulse THEN pulse ELSE first
        /\ last' = [part |-> part, op |-> op, arg |-> arg, pulses |-> <<pulse>>,
                    io |-> IF ok THEN "ok" ELSE "OSError", raised |-> r.raised]

\* A direct call controller.set_pulse(pulse) on the controller of part.
\* The controller exists before the part that will hold it.
ControllerSetPulse(part, pulse, ok) ==
    LET r == PCA9685_set_pulse(pwm[part], pulse, ok)
    IN  /\ pwm' = [pwm EXCEPT ![part] = r.hw]
        /\ last' = [part |-> part, op |-> "PCA9685.set_pulse", arg |-> pulse,
                    pulses |-> <<pulse>>,
                    io |-> IF ok THEN "ok" ELSE "OSError", raised |-> r.raised]
        /\ UNCHANGED <<first, steering, throttle, driveVars>>

\* A direct call controller.run(pulse) on the controller of part.
ControllerRun(part, pulse, ok) ==
    LET r == PCA9685_run(pwm[part], pulse, ok)
    IN  /\ pwm' = [pwm EXCEPT ![part] = r.hw]
        /\ last' = [part |-> part, op |-> "PCA9685.run", arg |-> pulse,
                    pulses |-> <<pulse>>,
                    io |-> IF ok THEN "ok" ELSE "OSError", raised |-> r.raised]
        /\ UNCHANGED <<first, steering, throttle, driveVars>>

SteeringRun(angle, ok) ==
    /\ Send("steering", "run", angle, PWMSteering_run(steering, angle), ok)
    /\ UNCHANGED <<steering, throttle, driveVars>>

SteeringShutdown(ok) ==
    /\ Send("steering", "shutdown", Zero, PWMSteering_shutdown(steering), ok)
    /\ UNCHANGED <<steering, throttle, driveVars>>

ThrottleInit(cfg, ok) ==
    /\ ~throttle.constructed
    /\ throttle' = [constructed |-> TRUE, max_pulse |-> cfg.max_pulse,
                    min_pulse |-> cfg.min_pulse, zero_pulse |-> cfg.zero_pulse]
    /\ Send("throttle", "init", Zero, PWMThrottle_init(throttle'), ok)
    /\ UNCHANGED <<steering, driveVars>>

ThrottleRun(t, ok) ==
    /\ throttle.constructed
    /\ Send("throttle", "run", t, PWMThrottle_run(throttle, t), ok)
    /\ UNCHANGED <<steering, throttle, driveVars>>

ThrottleShutdown(ok) ==
    /\ throttle.constructed
    /\ Send("throttle", "shutdown", Zero, PWMThrottle_shutdown(throttle), ok)
    /\ UNCHANGED <<steering, throttle, driveVars>>

(***************************************************************************)
(* Specifications.                                                         *)
(***************************************************************************)
PWMIdle ==
    /\ steering = [left_pulse |-> FromInt(290), right_pulse |-> FromInt(490)]
    /\ throttle = NoThrottle
    /\ pwm = [p \in Parts |-> NoPulse]
    /\ first = NoPulse
    /\ last = NoOp

\* One AMSL293D driven by a control loop.
InitDrive == DriveInit /\ PWMIdle
DriveCall == \E s \in Commands, t \in Commands : Run("a", s, t)
NextDrive == DriveCall
SpecDrive == InitDrive /\ [][NextDrive]_vars

\* Two AMSL293D objects, each with its own history of calls.
\* Their commands are full lock or neutral.
PairCommands == {MinusOne, Zero, One}
PairCall == \E a \in Arbiters, s \in PairCommands, t \in PairCommands : Run(a, s, t)
NextPair == PairCall
SpecPair == InitDrive /\ [][NextPair]_vars

\* A PWMSteering and a PWMThrottle, each on its own PCA9685 channel.
InitPWM == DriveInit /\ PWMInit
Construct == \E cfg \in ThrottleConfigs, ok \in BOOLEAN : ThrottleInit(cfg, ok)
Steer == \E angle \in Commands, ok \in BOOLEAN : SteeringRun(angle, ok)
SteerOff == \E ok \in BOOLEAN : SteeringShutdown(ok)
Drive == \E t \in Commands, ok \in BOOLEAN : ThrottleRun(t, ok)
DriveOff == \E ok \in BOOLEAN : ThrottleShutdown(ok)
DirectSetPulse ==
    \E p \in Parts, pulse \in ControllerPulses, ok \in BOOLEAN :
        ControllerSetPulse(p, pulse, ok)
DirectRun ==
    \E p \in Parts, pulse \in ControllerPulses, ok \in BOOLEAN :
        ControllerRun(p, pulse, ok)
NextPWM ==
    \/ Construct \/ Steer \/ SteerOff \/ Drive \/ DriveOff
    \/ DirectSetPulse \/ DirectRun
SpecPWM == InitPWM /\ [][NextPWM]_vars

(***************************************************************************)
(* Properties.                                                             *)
(***************************************************************************)
Half == Rat(1, 2)
MinusHalf == Rat(-1, 2)

\* C1: AMSL293D.run with throttle or steering outside [-1, 1] raises
\* ValueError, issues no motor command and hands no speed to either side
\* during that call, and leaves throttleL / throttleR as they were.
C1_InvalidRejected ==
    /\ [](\A a \in Arbiters :
            (drive[a].called /\ (~InRange(drive[a].steering) \/ ~InRange(drive[a].throttle)))
              => /\ drive[a].raised = "ValueError"
                 /\ drive[a].motors = <<>>
                 /\ drive[a].dispatched = <<>>)
    /\ [][\A a \in Arbiters :
            drive'[a].raised = "ValueError" => arb'[a] = arb[a]]_vars

\* A rejected call on an arbiter whose stored speeds are not the initial ones.
C1_Witness ==
    /\ drive["a"].raised = "ValueError"
    /\ arb["a"].throttleL # Zero
    /\ arb["a"].throttleR # arb["a"].throttleL

\* C2: every accepted call dispatches the speeds of the quadrant table:
\* steering = 0: left = right = throttle; quadrant 1: (throttle,
\* throttle - steering); quadrant 2: (throttle + steering, throttle);
\* quadrant 4: (throttle, throttle + steering); quadrant 3:
\* (throttle - steering, throttle).
C2_QuadrantTable ==
    \A a \in Arbiters :
      LET s == drive[a].steering
          t == drive[a].throttle
          d == drive[a].dispatched
      IN  (drive[a].called /\ InRange(s) /\ InRange(t)) =>
            /\ s = Zero => d = <<t, t>>
            /\ (RGt(s, Zero) /\ RGt(t, Zero)) => d = <<t, RSub(t, s)>>
            /\ (RLt(s, Zero) /\ RGt(t, Zero)) => d = <<RAdd(t, s), t>>
            /\ (RGt(s, Zero) /\ RLt(t, Zero)) => d = <<t, RAdd(t, s)>>
            /\ (RLt(s, Zero) /\ RLt(t, Zero)) => d = <<RSub(t, s), t>>

\* A quadrant 3 call: steering -1/2, throttle -1 dispatches (-1/2, -1).
C2_Witness ==
    /\ drive["a"].called
    /\ drive["a"].steering = MinusHalf
    /\ drive["a"].throttle = MinusOne
    /\ drive["a"].dispatched = <<MinusHalf, MinusOne>>

\* C3: the speeds a call dispatches depend on its (steering, throttle)
\* alone: two arbiters whose last accepted calls had the same inputs
\* dispatched the same left and right speeds, whatever came before.
C3_InputsDecideSpeeds ==
    \A a \in Arbiters, b \in Arbiters :
      ( /\ drive[a].called /\ drive[b].called
        /\ drive[a].raised = "none" /\ drive[b].raised = "none"
        /\ drive[a].steering = drive[b].steering
        /\ drive[a].throttle = drive[b].throttle )
      => drive[a].dispatched = drive[b].dispatched

\* C4: with inputs in [-1, 1] the dispatched left and right speeds lie in
\* [-1, 1] and every motor gets a magnitude percentage in 0..100; the
\* stored speeds never leave [-1, 1].
C4_SpeedsInRange ==
    \A a \in Arbiters :
      /\ InRange(arb[a].throttleL) /\ InRange(arb[a].throttleR)
      /\ (drive[a].called /\ InRange(drive[a].steering) /\ InRange(drive[a].throttle)) =>
            /\ Len(drive[a].dispatched) = 2
            /\ \A i \in 1..2 : InRange(drive[a].dispatched[i])
            /\ Len(drive[a].motors) = 4
            /\ \A i \in 1..4 : drive[a].motors[i].speed \in 0..100

\* A blended call: steering 1, throttle 1/2 runs the right side backwards at 50.
C4_Witness ==
    /\ drive["a"].called
    /\ drive["a"].steering = One
    /\ drive["a"].throttle = Half
    /\ drive["a"].dispatched = <<Half, MinusHalf>>
    /\ drive["a"].motors[3] = [motor |-> DC_Motor_3, speed |-> 50, clockwise |-> FALSE]
    /\ drive["a"].motors[4] = [motor |-> DC_Motor_4, speed |-> 50, clockwise |-> TRUE]

\* C5: PWMSteering.run and PWMThrottle.run reject an argument outside
\* [-1, 1]: the call raises and sends no pulse.
C5_OutOfRangeRejected ==
    (last.op = "run" /\ ~InRange(last.arg)) =>
        /\ last.raised # "none"
        /\ last.pulses = <<>>

\* C6: constructing a PWMThrottle sends zero_pulse, once; in the history
\* of the throttle the first pulse it passes to controller.set_pulse is
\* zero_pulse, and it passes none before it is constructed.
C6_CalibrationFirst ==
    /\ throttle.constructed => first = throttle.zero_pulse
    /\ ~throttle.constructed => first = NoPulse
    /\ last.op = "init" => last.pulses = <<throttle.zero_pulse>>

\* A throttle run that sent another pulse than zero_pulse, after calibration.
C6_Witness ==
    /\ throttle.constructed
    /\ last.part = "throttle" /\ last.op = "run"
    /\ last.pulses # <<throttle.zero_pulse>>
    /\ last.io = "ok"
    /\ first = throttle.zero_pulse

\* C7: PWMThrottle.run(0) sends zero_pulse, run(1) sends max_pulse and
\* run(-1) sends min_pulse, for every configuration and history.
C7_ThrottleEndpoints ==
    (last.part = "throttle" /\ last.op = "run") =>
        /\ last.arg = Zero => last.pulses = <<throttle.zero_pulse>>
        /\ last.arg = One => last.pulses = <<throttle.max_pulse>>
        /\ last.arg = MinusOne => last.pulses = <<throttle.min_pulse>>

\* run(0) writes zero_pulse over a channel that held another pulse.
C7_Witness ==
    /\ last.part = "throttle" /\ last.op = "run" /\ last.arg = Zero
    /\ last.io = "ok"
    /\ pwm["throttle"] = throttle.zero_pulse
    /\ throttle.zero_pulse # throttle.max_pulse
    /\ pwm["steering"] # NoPulse

\* C8: PWMSteering.run(-1) sends left_pulse, run(1) sends right_pulse and
\* run(0) sends (left_pulse + right_pulse) / 2, for either order of the
\* two pulses.
C8_SteeringEndpoints ==
    (last.part = "steering" /\ last.op = "run") =>
        /\ last.arg = MinusOne => last.pulses = <<steering.left_pulse>>
        /\ last.arg = One => last.pulses = <<steering.right_pulse>>
        /\ last.arg = Zero =>
             last.pulses = << RDiv(RAdd(steering.left_pulse, steering.right_pulse),
                                   FromInt(2)) >>

\* run(0) with left_pulse above right_pulse sends the midpoint 751/2.
C8_Witness ==
    /\ last.part = "steering" /\ last.op = "run" /\ last.arg = Zero
    /\ RGt(steering.left_pulse, steering.right_pulse)
    /\ last.pulses = << <<751, 2>> >>

\* C9: an OSError of the bus write never leaves run, shutdown or the
\* constructor: no call raises; a failed write leaves every channel's
\* pulse as it was; a later successful write lands on the channel.
C9_IOFailureDegrades ==
    /\ [](last.raised = "none")
    /\ [][ /\ last'.io = "OSError" => pwm' = pwm
           /\ last'.io = "ok" => pwm'[last'.part] = last'.pulses[1] ]_vars

\* A failed write on a channel that keeps an earlier, different pulse.
C9_Witness ==
    /\ last.io = "OSError"
    /\ last.op = "run"
    /\ pwm[last.part] # NoPulse
    /\ pwm[last.part] # last.pulses[1]

\* C10: shutdown() sends the pulse run(0) sends on the same part.
C10_ShutdownIsNeutral ==
    last.op = "shutdown" =>
        last.pulses = << IF last.part = "steering"
                           THEN PWMSteering_run(steering, Zero)
                           ELSE PWMThrottle_run(throttle, Zero) >>

\* A throttle shutdown that returned the channel to zero_pulse while the
\* steering channel holds a pulse off its midpoint.
C10_Witness ==
    /\ last.op = "shutdown" /\ last.part = "throttle" /\ last.io = "ok"
    /\ pwm["throttle"] = throttle.zero_pulse
    /\ throttle.zero_pulse # throttle.min_pulse
    /\ pwm["steering"] # NoPulse
    /\ pwm["steering"] # PWMSteering_run(steering, Zero)

====
